---- MODULE Spec2Model ----
(***************************************************************************)
(* GDP growth analysis pipeline (src/gdp-analysis/gdp_analysis.py).        *)
(*                                                                         *)
(* Numbers.  A growth rate is a decimal with two places; it is held as an  *)
(* integer number of hundredths (2.3 is 230).  Intermediate rates of the   *)
(* synthetic generator are held in ten-thousandths before round(rate, 2).  *)
(* A correlation is held in thousandths (1.0 is 1000).  A missing value    *)
(* (pandas NaN) is the value NaN below.  Arithmetic is exact; the binary   *)
(* floating point of the program differs from it only in the last bits of  *)
(* a result, which the roundings to 2 and 3 places remove except at exact  *)
(* ties.                                                                   *)
(***************************************************************************)
EXTENDS Integers, Sequences, FiniteSets, TLC

(***************************************************************************)
(* Bounds of the model.                                                    *)
(***************************************************************************)
\* longest year index of a response of the external source
MaxYears == 3
\* most draws another consumer takes from the shared generator in one process
MaxDraws == 3
\* longest year range, other than the shipped one, given to the generator
MaxSpan == 2

(***************************************************************************)
(* Configuration (module level constants of the program).                  *)
(***************************************************************************)
MAJOR_ECONOMIES ==
    << <<"USA", "United States">>, <<"CHN", "China">>, <<"JPN", "Japan">>,
       <<"DEU", "Germany">>, <<"IND", "India">>, <<"GBR", "United Kingdom">>,
       <<"FRA", "France">>, <<"BRA", "Brazil">>, <<"ITA", "Italy">>,
       <<"CAN", "Canada">> >>

START_YEAR == 2000
END_YEAR == 2023

\* pandas' missing value
NaN == -1000000000

IsNaN(v) == v = NaN

(***************************************************************************)
(* Sequence helpers.                                                       *)
(***************************************************************************)
Range(s) == {s[i] : i \in DOMAIN s}

Reverse(s) == [i \in 1..Len(s) |-> s[Len(s) + 1 - i]]

Take(s, n) == SubSeq(s, 1, IF n < Len(s) THEN n ELSE Len(s))

IsPrefix(s, t) == Len(s) <= Len(t) /\ s = SubSeq(t, 1, Len(s))

\* range(a, b + 1) as a list
YearList_Exclusive(a, b) == [i \in 1..(b - a) |-> a + i - 1]

YearList(a, b) == [i \in 1..(b - a + 1) |-> a + i - 1]

Abs(x) == IF x < 0 THEN -x ELSE x

(***************************************************************************)
(* Exact arithmetic on naturals of any size: little-endian digits in base  *)
(* Base, no leading zero digit, <<>> is 0.  The sums of squares of a       *)
(* 24-year series of hundredths exceed 32 bits.                            *)
(***************************************************************************)
Base == 100 * 100

RECURSIVE BigNat(_)
BigNat(n) == IF n = 0 THEN <<>> ELSE <<n % Base>> \o BigNat(n \div Base)

RECURSIVE BigTrim(_)
BigTrim(a) ==
    IF a = <<>> THEN <<>>
    ELSE IF a[Len(a)] = 0 THEN BigTrim(SubSeq(a, 1, Len(a) - 1)) ELSE a

RECURSIVE BigAddC(_, _, _)
BigAddC(a, b, c) ==
    IF a = <<>> /\ b = <<>> THEN (IF c = 0 THEN <<>> ELSE <<c>>)
    ELSE LET x == IF a = <<>> THEN 0 ELSE Head(a)
             y == IF b = <<>> THEN 0 ELSE Head(b)
             t == x + y + c
         IN  <<t % Base>> \o BigAddC(IF a = <<>> THEN <<>> ELSE Tail(a),
                                     IF b = <<>> THEN <<>> ELSE Tail(b),
                                     t \div Base)

BigAdd(a, b) == BigAddC(a, b, 0)

\* a - b for a >= b
RECURSIVE BigSubC(_, _, _)
BigSubC(a, b, c) ==
    IF a = <<>> THEN <<>>
    ELSE LET y == IF b = <<>> THEN 0 ELSE Head(b)
             t == Head(a) - y - c
         IN  <<t % Base>> \o BigSubC(Tail(a),
                                     IF b = <<>> THEN <<>> ELSE Tail(b),
                                     IF t < 0 THEN 1 ELSE 0)

BigSub(a, b) == BigTrim(BigSubC(a, b, 0))

\* a * d for a digit d
RECURSIVE BigMulC(_, _, _)
BigMulC(a, d, c) ==
    IF a = <<>> THEN BigNat(c)
    ELSE LET t == Head(a) * d + c
         IN  <<t % Base>> \o BigMulC(Tail(a), d, t \div Base)

RECURSIVE BigMul(_, _)
BigMul(a, b) ==
    IF b = <<>> \/ a = <<>> THEN <<>>
    ELSE BigAdd(BigTrim(BigMulC(a, Head(b), 0)),
                LET r == BigMul(a, Tail(b)) IN IF r = <<>> THEN <<>> ELSE <<0>> \o r)

\* -1, 0, 1 as a < b, a = b, a > b
RECURSIVE BigCmpFrom(_, _, _)
BigCmpFrom(a, b, i) ==
    IF i = 0 THEN 0
    ELSE IF a[i] < b[i] THEN -1
    ELSE IF a[i] > b[i] THEN 1
    ELSE BigCmpFrom(a, b, i - 1)

BigCmp(a, b) ==
    IF Len(a) < Len(b) THEN -1
    ELSE IF Len(a) > Len(b) THEN 1
    ELSE BigCmpFrom(a, b, Len(a))

\* the integer nearest to num / den (den > 0), ties to the even one
RoundHalfEven(num, den) ==
    LET q == num \div den
        r == num % den
    IN  IF 2 * r < den THEN q
        ELSE IF 2 * r > den THEN q + 1
        ELSE IF q % 2 = 0 THEN q ELSE q + 1

(***************************************************************************)
(* The shared pseudo-random generator (numpy's global RandomState).  Its   *)
(* state is a word x advanced by a congruence, and the spare normal deviate*)
(* that the legacy normal sampler keeps: the sampler makes deviates in     *)
(* pairs, returns one and caches the other (has_gauss, gauss).  A standard *)
(* normal deviate is held in hundredths, within -2.00 .. 2.00.             *)
(***************************************************************************)
RngNext(x) == (x * 25173 + 13849) % 65536

StdNormal(x) == (x % 401) - 200

\* np.random.seed(s): the word is set from s and the cached deviate dropped
Seed_Omitted(r, s) == r

Seed(r, s) == [x |-> s % 65536, has_gauss |-> FALSE, gauss |-> 0]

\* one standard normal deviate and the generator after it
Gauss(r) ==
    IF r.has_gauss
    THEN [value |-> r.gauss, rng |-> [r EXCEPT !.has_gauss = FALSE, !.gauss = 0]]
    ELSE LET x1 == RngNext(r.x)
             x2 == RngNext(x1)
         IN  [value |-> StdNormal(x2),
              rng |-> [x |-> x2, has_gauss |-> TRUE, gauss |-> StdNormal(x1)]]

\* np.random.normal(0, scale) in ten-thousandths, scale in hundredths
Normal(scale, r) ==
    LET g == Gauss(r) IN [value |-> scale * g.value, rng |-> g.rng]

(***************************************************************************)
(* A DataFrame: index labels, column labels, and one list of cells per     *)
(* column (values[j][i] is the cell of column j in row i).                 *)
(***************************************************************************)
NoFrame == [index |-> <<>>, columns |-> <<>>, values |-> <<>>]

Positions(s, x) == {i \in DOMAIN s : s[i] = x}

\* the cells of df at (row label, column label)
Cells(frame, row, col) ==
    {<<i, j>> \in Positions(frame.index, row) \X Positions(frame.columns, col) : TRUE}

CellAt(frame, row, col) ==
    LET c == CHOOSE c \in Cells(frame, row, col) : TRUE
    IN  frame.values[c[2]][c[1]]

(***************************************************************************)
(* create_sample_data                                                      *)
(***************************************************************************)
base_patterns ==
    << [country |-> "United States", mean |-> 230, std |-> 200, crisis_impact |-> -350],
       [country |-> "China", mean |-> 850, std |-> 250, crisis_impact |-> -150],
       [country |-> "Japan", mean |-> 100, std |-> 200, crisis_impact |-> -400],
       [country |-> "Germany", mean |-> 150, std |-> 250, crisis_impact |-> -450],
       [country |-> "India", mean |-> 650, std |-> 250, crisis_impact |-> -200],
       [country |-> "United Kingdom", mean |-> 200, std |-> 200, crisis_impact |-> -400],
       [country |-> "France", mean |-> 150, std |-> 200, crisis_impact |-> -300],
       [country |-> "Brazil", mean |-> 250, std |-> 300, crisis_impact |-> -400],
       [country |-> "Italy", mean |-> 50, std |-> 200, crisis_impact |-> -500],
       [country |-> "Canada", mean |-> 220, std |-> 200, crisis_impact |-> -300] >>

\* round(rate, 2): ten-thousandths to hundredths
Round2(rate) == RoundHalfEven(rate, 100)

\* the body of the loop over years: the rate appended for `year` and the
\* generator after the draws it took
YearRate_Additive2009(params, year, r) ==
    LET d == Normal(params.std \div 2, r)
        rate == params.mean * 100 + d.value
    IN  IF year = 2008 \/ year = 2009
        THEN [value |-> Round2(rate + params.crisis_impact * 30), rng |-> d.rng]
        ELSE IF year = 2020
        THEN [value |-> Round2(params.crisis_impact * 150), rng |-> d.rng]
        ELSE [value |-> Round2(rate), rng |-> d.rng]

YearRate(params, year, r) ==
    LET d == Normal(params.std \div 2, r)
        rate == params.mean * 100 + d.value
    IN  IF year = 2008
        THEN [value |-> Round2(rate + params.crisis_impact * 30), rng |-> d.rng]
        ELSE IF year = 2009
        THEN [value |-> Round2(params.crisis_impact * 100), rng |-> d.rng]
        ELSE IF year = 2020
        THEN [value |-> Round2(params.crisis_impact * 150), rng |-> d.rng]
        ELSE IF year = 2021
        THEN LET e == Normal(100, d.rng)
             IN  [value |-> Round2(params.mean * 200 + e.value), rng |-> e.rng]
        ELSE IF year = 2022
        THEN LET e == Normal(50, d.rng)
             IN  [value |-> Round2(params.mean * 120 + e.value), rng |-> e.rng]
        ELSE [value |-> Round2(rate), rng |-> d.rng]

\* the inner loop: growth_rates of one country over years[i..]
RECURSIVE GrowthRates(_, _, _, _)
GrowthRates(params, years, i, r) ==
    IF i > Len(years) THEN [rates |-> <<>>, rng |-> r]
    ELSE LET y == YearRate(params, years[i], r)
             rest == GrowthRates(params, years, i + 1, y.rng)
         IN  [rates |-> <<y.value>> \o rest.rates, rng |-> rest.rng]

\* the outer loop: data[country] for base_patterns[k..]
RECURSIVE SampleColumns(_, _, _)
SampleColumns(years, k, r) ==
    IF k > Len(base_patterns) THEN [values |-> <<>>, rng |-> r]
    ELSE LET g == GrowthRates(base_patterns[k], years, 1, r)
             rest == SampleColumns(years, k + 1, g.rng)
         IN  [values |-> <<g.rates>> \o rest.values, rng |-> rest.rng]

\* create_sample_data() under the configured range c = <<START_YEAR, END_YEAR>>
\* and generator r: the frame returned and the generator it leaves behind
create_sample_data(c, r) ==
    LET years == YearList(c[1], c[2])
        cols == SampleColumns(years, 1, Seed(r, 42))
    IN  [df |-> [index |-> years,
                 columns |-> [k \in 1..Len(base_patterns) |-> base_patterns[k].country],
                 values |-> cols.values],
         rng |-> cols.rng]

(***************************************************************************)
(* Sorting.  Rows to sort are records with a field key.                    *)
(***************************************************************************)
\* a stable ascending sort of records whose keys are all numbers (insertion
\* sort, which is what numpy's default sort does on arrays this small)
RECURSIVE InsertByKey(_, _)
InsertByKey(sorted, e) ==
    IF sorted = <<>> THEN <<e>>
    ELSE IF sorted[Len(sorted)].key <= e.key THEN Append(sorted, e)
    ELSE Append(InsertByKey(SubSeq(sorted, 1, Len(sorted) - 1), e), sorted[Len(sorted)])

RECURSIVE StableSort(_)
StableSort(s) ==
    IF s = <<>> THEN <<>>
    ELSE InsertByKey(StableSort(SubSeq(s, 1, Len(s) - 1)), s[Len(s)])

HasKey(e) == ~IsNaN(e.key)

LacksKey(e) == IsNaN(e.key)

\* pandas sort_values: the rows with a key sorted, the rows without one (NaN)
\* after them in their original order.  Descending, pandas reverses the rows,
\* sorts ascending and reverses the result, so equal keys keep their order.
SortValues_Unsorted(s, ascending) == s

SortValues(s, ascending) ==
    LET some == SelectSeq(s, HasKey)
        none == SelectSeq(s, LacksKey)
    IN  IF ascending THEN StableSort(some) \o none
        ELSE Reverse(StableSort(Reverse(some))) \o none

\* pandas nlargest(n, column), keep='first'
NLargest(s, n) == Take(SortValues(s, FALSE), n)

\* Python's a < b on floats: false whenever either is NaN
PyLt(a, b) == ~IsNaN(a) /\ ~IsNaN(b) /\ a < b

\* list.sort, count_run: the length of the run that starts the list and
\* whether it descends strictly
RECURSIVE RunEnd(_, _, _)
RunEnd(s, i, descending) ==
    IF i > Len(s) THEN i - 1
    ELSE IF PyLt(s[i].key, s[i - 1].key) = descending
    THEN RunEnd(s, i + 1, descending)
    ELSE i - 1

\* list.sort, binarysort: where the pivot goes among the sorted s[1..r-1]
RECURSIVE BinaryPlace(_, _, _, _)
BinaryPlace(s, pivot, l, r) ==
    IF l >= r THEN l
    ELSE LET p == l + ((r - l) \div 2)
         IN  IF PyLt(pivot.key, s[p].key)
             THEN BinaryPlace(s, pivot, l, p)
             ELSE BinaryPlace(s, pivot, p + 1, r)

RECURSIVE BinarySort(_, _)
BinarySort(s, start) ==
    IF start > Len(s) THEN s
    ELSE LET pivot == s[start]
             at == BinaryPlace(s, pivot, 1, start)
             moved == SubSeq(s, 1, at - 1) \o <<pivot>> \o SubSeq(s, at, start - 1)
                         \o SubSeq(s, start + 1, Len(s))
         IN  BinarySort(moved, start + 1)

\* list.sort() of fewer than 64 elements: one run, extended by binary insertion
ListSortAscending(s) ==
    IF Len(s) < 2 THEN s
    ELSE LET descending == PyLt(s[2].key, s[1].key)
             n == RunEnd(s, 3, descending)
             run == IF descending
                    THEN Reverse(SubSeq(s, 1, n)) \o SubSeq(s, n + 1, Len(s))
                    ELSE s
         IN  BinarySort(run, n + 1)

\* list.sort(key=..., reverse=...): reverse=True reverses the list before and
\* after the sort, which keeps equal keys in their original order
ListSort(s, reverse) ==
    IF reverse THEN Reverse(ListSortAscending(Reverse(s))) ELSE ListSortAscending(s)

(***************************************************************************)
(* calculate_statistics                                                    *)
(***************************************************************************)
IsPresent(v) == ~IsNaN(v)

RECURSIVE Sum(_)
Sum(s) == IF s = <<>> THEN 0 ELSE Head(s) + Sum(Tail(s))

RECURSIVE SumSq(_)
SumSq(s) == IF s = <<>> THEN 0 ELSE Head(s) * Head(s) + SumSq(Tail(s))

RECURSIVE SumProd(_, _)
SumProd(s, t) == IF s = <<>> THEN 0 ELSE Head(s) * Head(t) + SumProd(Tail(s), Tail(t))

\* n * sum(x^2) - sum(x)^2, which is n^2 times the population variance
Spread(s) ==
    BigSub(BigMul(BigNat(Len(s)), BigNat(SumSq(s))),
           BigMul(BigNat(Abs(Sum(s))), BigNat(Abs(Sum(s)))))

\* the least k in lo..hi with num/den <= ((2k+1)/2)^2, that is with
\* sqrt(num/den) <= k + 1/2, and whether equality holds there
RECURSIVE RootSearch(_, _, _, _)
RootSearch(num4, den, lo, hi) ==
    IF lo >= hi THEN lo
    ELSE LET mid == (lo + hi) \div 2
             odd == BigNat(2 * mid + 1)
         IN  IF BigCmp(num4, BigMul(BigMul(odd, odd), den)) <= 0
             THEN RootSearch(num4, den, lo, mid)
             ELSE RootSearch(num4, den, mid + 1, hi)

\* sqrt(num / den) rounded to the nearest integer (ties to even), for a result
\* of at most hi
RoundedRoot(num, den, hi) ==
    LET num4 == BigMul(BigNat(4), num)
        k == RootSearch(num4, den, 0, hi)
        odd == BigNat(2 * k + 1)
        tie == BigCmp(num4, BigMul(BigMul(odd, odd), den)) = 0
    IN  IF tie /\ k % 2 = 1 THEN k + 1 ELSE k

Mean(col) ==
    LET x == SelectSeq(col, IsPresent)
    IN  IF x = <<>> THEN NaN ELSE RoundHalfEven(Sum(x), Len(x))

Median(col) ==
    LET x == SelectSeq(col, IsPresent)
        sorted == StableSort([i \in 1..Len(x) |-> [key |-> x[i]]])
        n == Len(x)
    IN  IF n = 0 THEN NaN
        ELSE IF n % 2 = 1 THEN sorted[(n + 1) \div 2].key
        ELSE RoundHalfEven(sorted[n \div 2].key + sorted[n \div 2 + 1].key, 2)

\* the sample standard deviation (ddof = 1)
Std(col) ==
    LET x == SelectSeq(col, IsPresent)
        n == Len(x)
    IN  IF n < 2 THEN NaN
        ELSE RoundedRoot(Spread(x), BigNat(n * (n - 1)), 1000000)

Max(col) ==
    LET x == SelectSeq(col, IsPresent)
    IN  IF x = <<>> THEN NaN ELSE CHOOSE m \in Range(x) : \A v \in Range(x) : v <= m

Min(col) ==
    LET x == SelectSeq(col, IsPresent)
    IN  IF x = <<>> THEN NaN ELSE CHOOSE m \in Range(x) : \A v \in Range(x) : m <= v

\* idxmax / idxmin: the label of the first row holding the extreme
IdxOf(index, col, extreme) ==
    IF IsNaN(extreme) THEN NaN
    ELSE index[CHOOSE i \in DOMAIN col :
                   col[i] = extreme /\ \A j \in 1..(i - 1) : col[j] # extreme]

CountPositive(col) == Cardinality({i \in DOMAIN col : IsPresent(col[i]) /\ col[i] > 0})

CountNegative(col) == Cardinality({i \in DOMAIN col : IsPresent(col[i]) /\ col[i] < 0})

\* one row of the statistics frame; key is 'Average Growth (%)'
StatsRow(frame, j) ==
    LET col == frame.values[j]
    IN  [country |-> frame.columns[j],
         key |-> Mean(col),
         median |-> Median(col),
         std |-> Std(col),
         max |-> Max(col),
         min |-> Min(col),
         best_year |-> IdxOf(frame.index, col, Max(col)),
         worst_year |-> IdxOf(frame.index, col, Min(col)),
         positive_years |-> CountPositive(col),
         negative_years |-> CountNegative(col)]

calculate_statistics(frame) ==
    SortValues([j \in 1..Len(frame.columns) |-> StatsRow(frame, j)], FALSE)

\* a column with no value at all: idxmax and idxmin have nothing to point at
AllMissing(col) == \A i \in DOMAIN col : IsNaN(col[i])

(***************************************************************************)
(* analyze_correlations                                                    *)
(***************************************************************************)
\* the rows where both columns hold a value
Common(x, y) == {i \in DOMAIN x : IsPresent(x[i]) /\ IsPresent(y[i])}

RECURSIVE Pick(_, _, _)
Pick(x, keep, i) ==
    IF i > Len(x) THEN <<>>
    ELSE (IF i \in keep THEN <<x[i]>> ELSE <<>>) \o Pick(x, keep, i + 1)

Sign(v) == IF v < 0 THEN -1 ELSE IF v > 0 THEN 1 ELSE 0

\* the sign of n * sum(xy) - sum(x) * sum(y) and its size
Covariation(x, y) ==
    LET a == Len(x) * Sign(SumProd(x, y))
        am == BigMul(BigNat(Len(x)), BigNat(Abs(SumProd(x, y))))
        b == Sign(Sum(x)) * Sign(Sum(y))
        bm == BigMul(BigNat(Abs(Sum(x))), BigNat(Abs(Sum(y))))
    IN  IF Sign(a) # Sign(b) \/ b = 0
        THEN [sign |-> IF a # 0 THEN Sign(a) ELSE -Sign(b), size |-> BigAdd(am, bm)]
        ELSE IF BigCmp(am, bm) >= 0
        THEN [sign |-> IF BigCmp(am, bm) = 0 THEN 0 ELSE Sign(a), size |-> BigSub(am, bm)]
        ELSE [sign |-> -Sign(a), size |-> BigSub(bm, am)]

\* Pearson's r of two columns over their common rows, rounded to 3 places;
\* NaN when no row is common or either column does not vary there
Pearson(colx, coly) ==
    LET keep == Common(colx, coly)
        x == Pick(colx, keep, 1)
        y == Pick(coly, keep, 1)
        d == BigMul(Spread(x), Spread(y))
        c == Covariation(x, y)
    IN  IF keep = {} \/ d = <<>> THEN NaN
        ELSE c.sign * RoundedRoot(BigMul(BigMul(BigNat(1000000), c.size), c.size), d, 1000)

\* DataFrame.corr: each pair is computed once and stored at both (i, j) and (j, i)
Corr_OneSided(frame, i, j) ==
    IF j <= i THEN Pearson(frame.values[i], frame.values[j]) ELSE 0

Corr(frame, i, j) ==
    IF j <= i
    THEN Pearson(frame.values[i], frame.values[j])
    ELSE Pearson(frame.values[j], frame.values[i])

NoCorrelations == [columns |-> <<>>, values |-> <<>>]

analyze_correlations(frame) ==
    [columns |-> frame.columns,
     values |-> [i \in 1..Len(frame.columns) |->
                    [j \in 1..Len(frame.columns) |-> Corr(frame, i, j)]]]

(***************************************************************************)
(* The external source (wbgapi).  wb.data.DataFrame answers with a frame   *)
(* whose rows are economies and whose columns are time labels such as      *)
(* YR2009; a label is held as its list of characters.  The source is not   *)
(* part of the program: what it may answer is enumerated here.  Its cells  *)
(* are taken with two decimal places.                                      *)
(***************************************************************************)
RECURSIVE Digits(_)
Digits(n) ==
    IF n < 10 THEN <<(<<"0", "1", "2", "3", "4", "5", "6", "7", "8", "9">>)[n + 1]>>
    ELSE Digits(n \div 10) \o Digits(n % 10)

YearLabel(y) == <<"Y", "R">> \o Digits(y)

\* the series the source may hold for an economy, by time position
SourceShapes == <<"up", "down", "flat", "wave", "step", "late", "none">>

ShapeValue(shape, j) ==
    CASE shape = "up" -> 100 * j
      [] shape = "down" -> -100 * j
      [] shape = "flat" -> 150
      [] shape = "wave" -> IF j % 2 = 1 THEN 100 ELSE -100
      [] shape = "step" -> IF j >= 3 THEN 100 ELSE 0
      [] shape = "late" -> IF j = 1 THEN NaN ELSE 50 * j
      [] OTHER -> NaN

\* which series each row holds: the shapes in turn from some offset, or one
\* shape for every row
SourceSeries ==
    {[kind |-> "turn", of |-> k] : k \in 1..Len(SourceShapes)}
        \cup {[kind |-> "same", of |-> k] : k \in 1..Len(SourceShapes)}

ShapeOfRow(a, i) ==
    IF a.kind = "same" THEN SourceShapes[a.of]
    ELSE SourceShapes[((i + a.of - 2) % Len(SourceShapes)) + 1]

\* the economies of an answer: as asked, sorted by code, only some of them,
\* or with an aggregate the registry does not name
SourceEconomies ==
    { [k \in 1..Len(MAJOR_ECONOMIES) |-> MAJOR_ECONOMIES[k][1]],
      <<"BRA", "CAN", "CHN", "DEU", "FRA", "GBR", "IND", "ITA", "JPN", "USA">>,
      <<"USA", "CHN", "JPN", "DEU">>,
      <<"USA", "WLD", "CHN">> }

\* the years of an answer: a run of years, the same in descending order, years
\* with a gap, and a quarterly label that names no year
SourceTimes ==
    {[i \in 1..n |-> YearLabel(s + i - 1)] : s \in {2008, 2019}, n \in 1..MaxYears}
        \cup {[i \in 1..MaxYears |-> YearLabel(2019 + MaxYears - i)]}
        \cup {<<YearLabel(2008), YearLabel(2010), YearLabel(2020)>>}
        \cup {<<YearLabel(2008), YearLabel(2009) \o <<"Q", "1">> >>}

SourceResponses ==
    {[index |-> e, columns |-> t,
      values |-> [j \in 1..Len(t) |-> [i \in 1..Len(e) |-> ShapeValue(ShapeOfRow(a, i), j)]]] :
        e \in SourceEconomies, t \in SourceTimes, a \in SourceSeries}

(***************************************************************************)
(* fetch_gdp_data                                                          *)
(***************************************************************************)
\* data.T
Transpose(frame) ==
    [index |-> frame.columns,
     columns |-> frame.index,
     values |-> [i \in 1..Len(frame.index) |->
                    [j \in 1..Len(frame.columns) |-> frame.values[j][i]]]]

\* str.replace('YR', '')
RECURSIVE StripYR(_)
StripYR(label) ==
    IF Len(label) < 2 THEN label
    ELSE IF label[1] = "Y" /\ label[2] = "R" THEN StripYR(SubSeq(label, 3, Len(label)))
    ELSE <<label[1]>> \o StripYR(Tail(label))

DigitChars == {"0", "1", "2", "3", "4", "5", "6", "7", "8", "9"}

DigitValue(c) == CHOOSE d \in 0..9 : Digits(d) = <<c>>

\* astype(int) raises on text that is no integer
IsIntText(text) == text # <<>> /\ \A i \in DOMAIN text : text[i] \in DigitChars

RECURSIVE ParseInt(_)
ParseInt(text) ==
    IF text = <<>> THEN 0
    ELSE ParseInt(SubSeq(text, 1, Len(text) - 1)) * 10 + DigitValue(text[Len(text)])

\* MAJOR_ECONOMIES.get(col, col)
EconomyName(code) ==
    IF \E k \in DOMAIN MAJOR_ECONOMIES : MAJOR_ECONOMIES[k][1] = code
    THEN MAJOR_ECONOMIES[CHOOSE k \in DOMAIN MAJOR_ECONOMIES : MAJOR_ECONOMIES[k][1] = code][2]
    ELSE code

\* whether the conversion of the index raises on this answer
IndexRaises(data) ==
    \E j \in DOMAIN data.columns : ~IsIntText(StripYR(data.columns[j]))

\* the frame the try block returns for the answer `data`
CleanFrame_NoRename(data) ==
    LET t == Transpose(data)
    IN  [t EXCEPT !.index = [i \in DOMAIN t.index |-> ParseInt(StripYR(t.index[i]))]]

CleanFrame(data) ==
    LET t == Transpose(data)
    IN  [index |-> [i \in DOMAIN t.index |-> ParseInt(StripYR(t.index[i]))],
         columns |-> [j \in DOMAIN t.columns |-> EconomyName(t.columns[j])],
         values |-> t.values]

\* the steps of the try block at which an exception may be raised
FetchSteps == {"query", "index", "rename"}

\* the step that raises, given the answer and what the environment does
RaisedAt(data, raise) ==
    IF raise = "query" THEN "query"
    ELSE IF raise = "index" \/ IndexRaises(data) THEN "index"
    ELSE raise

\* the except block: what fetch_gdp_data returns after a raise; partial is the
\* frame the try block had built so far
ExceptResult_Partial(c, r, partial) == [df |-> partial, rng |-> r]

ExceptResult(c, r, partial) == create_sample_data(c, r)

\* fetch_gdp_data(): the frame returned, the generator afterwards, and the step
\* that raised ("none" when the try block returned)
fetch_gdp_data(c, r, data, raise) ==
    LET at == RaisedAt(data, raise)
        partial == IF at = "query" THEN NoFrame
                   ELSE IF at = "index" THEN Transpose(data)
                   ELSE CleanFrame_NoRename(data)
    IN  IF at = "none"
        THEN [df |-> CleanFrame(data), rng |-> r, raised |-> "none"]
        ELSE LET x == ExceptResult(c, r, partial)
             IN  [df |-> x.df, rng |-> x.rng, raised |-> at]

(***************************************************************************)
(* print_analysis_report                                                   *)
(***************************************************************************)
\* f"{value:.1f}": hundredths to tenths
Format1(v) == IF IsNaN(v) THEN NaN ELSE RoundHalfEven(v, 10)

\* `year in df.index`
InIndex_WithinRange(frame, year) ==
    /\ frame.index # <<>>
    /\ \E i \in DOMAIN frame.index : frame.index[i] <= year
    /\ \E i \in DOMAIN frame.index : frame.index[i] >= year

InIndex(frame, year) == \E i \in DOMAIN frame.index : frame.index[i] = year

\* df.loc[year] is a row only when exactly one row has the label: with none
\* it raises KeyError, with several it is a frame and sort_values() raises
LocRaises(frame, year) == Cardinality(Positions(frame.index, year)) # 1

\* whether print_analysis_report raises on this frame
ReportRaises(frame) ==
    \E year \in {2009, 2020} : InIndex(frame, year) /\ LocRaises(frame, year)

\* df.loc[year].sort_values(), its first three entries as printed
CrisisSection(frame, year) ==
    LET i == CHOOSE i \in DOMAIN frame.index : frame.index[i] = year
        row == [j \in 1..Len(frame.columns) |->
                   [country |-> frame.columns[j], key |-> frame.values[j][i]]]
        worst == Take(SortValues(row, TRUE), 3)
    IN  [year |-> year,
         worst |-> [k \in 1..Len(worst) |-> <<worst[k].country, Format1(worst[k].key)>>]]

RECURSIVE CrisisSections(_, _)
CrisisSections(frame, years) ==
    IF years = <<>> THEN <<>>
    ELSE (IF InIndex(frame, Head(years)) THEN <<CrisisSection(frame, Head(years))>> ELSE <<>>)
            \o CrisisSections(frame, Tail(years))

\* the two loops that collect corr_pairs: column i with every later column
RECURSIVE CorrPairs(_, _, _)
CorrPairs(c, i, j) ==
    IF i > Len(c.columns) THEN <<>>
    ELSE IF j > Len(c.columns) THEN CorrPairs(c, i + 1, i + 2)
    ELSE <<[c1 |-> c.columns[i], c2 |-> c.columns[j], corr |-> c.values[i][j],
            key |-> IF IsNaN(c.values[i][j]) THEN NaN ELSE Abs(c.values[i][j])]>>
            \o CorrPairs(c, i, j + 1)

\* corr_pairs.sort(key=lambda x: abs(x[2]), reverse=True); corr_pairs[:5]
TopCorrelations(c) == Take(ListSort(CorrPairs(c, 1, 2), TRUE), 5)

Ranked(rows) == [k \in 1..Len(rows) |-> <<rows[k].country, rows[k].key>>]

NoReport == <<>>

\* the report as the list of its sections, in the order they are printed
print_analysis_report(frame, st, c) ==
    <<[section |-> "SUMMARY STATISTICS", rows |-> st],
      [section |-> "HIGHEST AVERAGE GROWTH", rows |-> Ranked(NLargest(st, 3))],
      [section |-> "MOST VOLATILE ECONOMIES",
       rows |-> Ranked(NLargest([k \in 1..Len(st) |->
                                    [country |-> st[k].country, key |-> st[k].std]], 3))],
      [section |-> "CRISIS IMPACT ANALYSIS", rows |-> CrisisSections(frame, <<2009, 2020>>)],
      [section |-> "CORRELATION INSIGHTS", rows |-> TopCorrelations(c)],
      [section |-> "YEAR-BY-YEAR DATA", rows |-> frame]>>

(***************************************************************************)
(* main                                                                    *)
(***************************************************************************)
\* the stages of a run, in the order main() calls them
Stages ==
    <<"Acquire", "ComputeStats", "ComputeCorrelations", "RenderComparison",
      "RenderHeatmap", "RenderBar", "RenderScatter", "ExportStatistics",
      "ExportData", "Report">>

\* the file a stage saves
Artifact(stage) ==
    CASE stage = "RenderComparison" -> "gdp_growth_comparison.png"
      [] stage = "RenderHeatmap" -> "gdp_growth_heatmap.png"
      [] stage = "RenderBar" -> "average_growth_comparison.png"
      [] stage = "RenderScatter" -> "growth_volatility_scatter.png"
      [] stage = "ExportStatistics" -> "gdp_statistics.csv"
      [] stage = "ExportData" -> "gdp_growth_data.csv"

WritingStages == {"RenderComparison", "RenderHeatmap", "RenderBar", "RenderScatter",
                  "ExportStatistics", "ExportData"}

\* the statement of main() after `stage`
Following(stage) ==
    IF stage = "Report" THEN "done"
    ELSE Stages[(CHOOSE k \in DOMAIN Stages : Stages[k] = stage) + 1]

\* where main() is after `stage` raised: nothing in main() catches, so the
\* exception leaves main() and ends the run
AfterRaise_Continues(stage) == Following(stage)

AfterRaise(stage) == "aborted"

(***************************************************************************)
(* State.                                                                  *)
(***************************************************************************)
VARIABLES
    cfg,            \* <<START_YEAR, END_YEAR>> as configured
    rng,            \* the shared pseudo-random generator
    pc,             \* the stage main() runs next, or "done", "aborted"
    trace,          \* the stages started so far
    queries,        \* queries made of the external source
    raised,         \* the step of the fetch that raised, or "none"
    failedAt,       \* the stage whose exception left main(), or "none"
    df,             \* main's df
    stats,          \* main's stats
    correlations,   \* main's correlations
    artifacts,      \* the files written to the output directory, in order
    report,         \* the sections of the printed report
    first,          \* what the first call of create_sample_data returned
    latest,         \* what the latest call of create_sample_data returned
    log             \* the calls of create_sample_data and the other draws

run == <<pc, trace, queries, raised, failedAt, df, stats, correlations, artifacts, report>>

gen == <<first, latest, log>>

vars == <<cfg, rng, run, gen>>

\* a process starts with the generator seeded from the operating system
InitialRng == {[x |-> x0, has_gauss |-> FALSE, gauss |-> 0] : x0 \in {7, 40503}}

RunInit ==
    /\ pc = "Acquire"
    /\ trace = <<>>
    /\ queries = 0
    /\ raised = "none"
    /\ failedAt = "none"
    /\ df = NoFrame
    /\ stats = <<>>
    /\ correlations = NoCorrelations
    /\ artifacts = <<>>
    /\ report = NoReport

Init ==
    /\ cfg = <<START_YEAR, END_YEAR>>
    /\ rng \in InitialRng
    /\ RunInit
    /\ first = NoFrame
    /\ latest = NoFrame
    /\ log = <<>>

\* Step 1: df = fetch_gdp_data()
Acquire ==
    /\ pc = "Acquire"
    /\ \E data \in SourceResponses, raise \in FetchSteps \cup {"none"} :
          \E f \in {fetch_gdp_data(cfg, rng, data, raise)} :
              /\ df' = f.df
              /\ rng' = f.rng
              /\ raised' = f.raised
              /\ trace' = IF f.raised = "none" THEN <<"Acquire">>
                          ELSE <<"Acquire", "Generate">>
    /\ queries' = queries + 1
    /\ pc' = Following("Acquire")
    /\ UNCHANGED <<cfg, failedAt, stats, correlations, artifacts, report, gen>>

\* Step 2: stats = calculate_statistics(df).  On a column with no value,
\* idxmax returns NaN in pandas before 3.0 and raises ValueError from 3.0 on.
ComputeStats ==
    /\ pc = "ComputeStats"
    /\ trace' = Append(trace, "ComputeStats")
    /\ \/ /\ stats' = calculate_statistics(df)
          /\ pc' = Following("ComputeStats")
          /\ UNCHANGED failedAt
       \/ /\ \E j \in DOMAIN df.values : AllMissing(df.values[j])
          /\ pc' = AfterRaise("ComputeStats")
          /\ failedAt' = "ComputeStats"
          /\ UNCHANGED stats
    /\ UNCHANGED <<cfg, rng, queries, raised, df, correlations, artifacts, report, gen>>

\* Step 3: correlations = analyze_correlations(df)
ComputeCorrelations ==
    /\ pc = "ComputeCorrelations"
    /\ trace' = Append(trace, "ComputeCorrelations")
    /\ correlations' = analyze_correlations(df)
    /\ pc' = Following("ComputeCorrelations")
    /\ UNCHANGED <<cfg, rng, queries, raised, failedAt, df, stats, artifacts, report, gen>>

\* Steps 4 and 5: the four plot functions and the two to_csv calls.  Each
\* saves one file; the plotting library or the file system may raise before
\* the file is written, or the stage may raise after it.
Write(stage) ==
    /\ pc = stage
    /\ trace' = Append(trace, stage)
    /\ \/ /\ artifacts' = Append(artifacts, Artifact(stage))
          /\ pc' = Following(stage)
          /\ UNCHANGED failedAt
       \/ /\ \E saved \in BOOLEAN :
                artifacts' = IF saved THEN Append(artifacts, Artifact(stage)) ELSE artifacts
          /\ pc' = AfterRaise(stage)
          /\ failedAt' = stage
    /\ UNCHANGED <<cfg, rng, queries, raised, df, stats, correlations, report, gen>>

\* Step 6: print_analysis_report(df, stats, correlations)
Report ==
    /\ pc = "Report"
    /\ trace' = Append(trace, "Report")
    /\ IF ReportRaises(df)
       THEN /\ pc' = AfterRaise("Report")
            /\ failedAt' = "Report"
            /\ UNCHANGED report
       ELSE /\ report' = print_analysis_report(df, stats, correlations)
            /\ pc' = Following("Report")
            /\ UNCHANGED failedAt
    /\ UNCHANGED <<cfg, rng, queries, raised, df, stats, correlations, artifacts, gen>>

Next ==
    \/ Acquire
    \/ ComputeStats
    \/ ComputeCorrelations
    \/ \E stage \in WritingStages : Write(stage)
    \/ Report

Spec == Init /\ [][Next]_vars

(***************************************************************************)
(* The generator called repeatedly in one process, with other draws from   *)
(* the shared generator before and between the calls.                      *)
(***************************************************************************)
\* most calls of create_sample_data in one process
MaxCalls == 2

GenYearRanges ==
    {<<START_YEAR, END_YEAR>>}
        \cup {<<s, e>> \in (START_YEAR..END_YEAR) \X (START_YEAR..END_YEAR) :
                 s <= e /\ e - s < MaxSpan}

Count(s, x) == Cardinality(Positions(s, x))

GenInit ==
    /\ cfg \in GenYearRanges
    /\ rng \in InitialRng
    /\ RunInit
    /\ first = NoFrame
    /\ latest = NoFrame
    /\ log = <<>>

CallCreateSampleData ==
    /\ Count(log, "call") < MaxCalls
    /\ LET g == create_sample_data(cfg, rng)
       IN  /\ rng' = g.rng
           /\ latest' = g.df
           /\ first' = IF first = NoFrame THEN g.df ELSE first
    /\ log' = Append(log, "call")
    /\ UNCHANGED <<cfg, run>>

OtherDraw ==
    /\ Count(log, "draw") < MaxDraws
    /\ rng' = Gauss(rng).rng
    /\ log' = Append(log, "draw")
    /\ UNCHANGED <<cfg, first, latest, run>>

GenNext == CallCreateSampleData \/ OtherDraw

SpecGen == GenInit /\ [][GenNext]_vars

(***************************************************************************)
(* Properties of create_sample_data (checked under SpecGen).               *)
(***************************************************************************)
RegistryNames == [k \in 1..Len(MAJOR_ECONOMIES) |-> MAJOR_ECONOMIES[k][2]]

ConfiguredYears == cfg[1]..cfg[2]

\* C3: any two calls of create_sample_data in one process return the same
\* frame (years, columns, cells), whatever was drawn from the shared generator
\* before or between them.
C3_Deterministic == (first # NoFrame /\ latest # NoFrame) => first = latest

C3_Witness ==
    /\ log = <<"draw", "call", "draw", "call">>
    /\ first = latest
    /\ first # NoFrame

\* C4: for every country, the generated cell of 2009 is the country's
\* crisis_impact and the cell of 2020 is 1.5 times it, whenever the year is in
\* the configured range; for the United States over 2000-2023 they are -3.5
\* and -5.25.
C4_CrisisCells ==
    latest # NoFrame =>
        /\ \A k \in DOMAIN base_patterns :
              /\ 2009 \in ConfiguredYears =>
                    /\ Cells(latest, 2009, base_patterns[k].country) # {}
                    /\ CellAt(latest, 2009, base_patterns[k].country)
                          = base_patterns[k].crisis_impact
              /\ 2020 \in ConfiguredYears =>
                    /\ Cells(latest, 2020, base_patterns[k].country) # {}
                    /\ 2 * CellAt(latest, 2020, base_patterns[k].country)
                          = 3 * base_patterns[k].crisis_impact
        /\ cfg = <<2000, 2023>> =>
              /\ CellAt(latest, 2009, "United States") = -350
              /\ CellAt(latest, 2020, "United States") = -525

C4_Witness ==
    /\ cfg = <<2000, 2023>>
    /\ latest # NoFrame
    /\ CellAt(latest, 2009, "United States") = -350
    /\ CellAt(latest, 2020, "United States") = -525
    /\ CellAt(latest, 2008, "United States") # -350

\* C5: the generated frame holds exactly one cell for every country of the
\* registry and every year of START_YEAR..END_YEAR, and the cell is not missing.
C5_FullyPopulated ==
    latest # NoFrame =>
        \A k \in DOMAIN RegistryNames : \A y \in ConfiguredYears :
            /\ Cardinality(Cells(latest, y, RegistryNames[k])) = 1
            /\ Len(latest.values[CHOOSE j \in DOMAIN latest.columns :
                                     latest.columns[j] = RegistryNames[k]])
                  = Len(latest.index)
            /\ ~IsNaN(CellAt(latest, y, RegistryNames[k]))

C5_Witness ==
    /\ cfg = <<START_YEAR, END_YEAR>>
    /\ latest # NoFrame
    /\ Len(latest.index) = 24
    /\ Len(latest.columns) = 10
    /\ \A j \in DOMAIN latest.values : \A i \in DOMAIN latest.values[j] :
          ~IsNaN(latest.values[j][i])

(***************************************************************************)
(* Properties of a run of main() (checked under Spec).                     *)
(***************************************************************************)
SixArtifacts ==
    <<"gdp_growth_comparison.png", "gdp_growth_heatmap.png",
      "average_growth_comparison.png", "growth_volatility_scatter.png",
      "gdp_statistics.csv", "gdp_growth_data.csv">>

Ended == pc \in {"done", "aborted"}

\* C1 as claimed: when a step of the fetch raises, fetch_gdp_data returns the
\* frame of create_sample_data, the exception does not leave main(), and the
\* run goes on through every later stage, so that it ends with all six
\* artifacts written.
C1_FallbackCompletes ==
    raised # "none" =>
        /\ df = create_sample_data(cfg, rng).df
        /\ pc # "aborted"
        /\ Ended => artifacts = SixArtifacts

\* C1 as amended: when a step of the fetch raises, fetch_gdp_data returns the
\* frame of create_sample_data and no fetched data, the exception does not
\* leave main(), and the run goes on into the later stages: it stops early
\* only where a render or export stage itself fails, and otherwise ends with
\* all six artifacts written and the report printed.
C1_FallbackUnlessLaterFailure ==
    raised # "none" =>
        /\ df = create_sample_data(cfg, rng).df
        /\ trace # <<>> /\ failedAt # "Acquire"
        /\ pc = "aborted" => failedAt \in WritingStages
        /\ pc = "done" => (artifacts = SixArtifacts /\ report # NoReport)
        /\ ~Ended => pc \in Range(Stages) \ {"Acquire"}

C1_Witness ==
    /\ raised = "index"
    /\ pc = "done"
    /\ artifacts = SixArtifacts
    /\ Len(df.index) = 24

\* the fixed order of the stages
C2_Order ==
    <<"Acquire", "Generate", "ComputeStats", "ComputeCorrelations",
      "RenderComparison", "RenderHeatmap", "RenderBar", "RenderScatter",
      "ExportStatistics", "ExportData", "Report">>

\* C2: the stages started so far are a prefix of the fixed order (Generate only
\* right after a failed Acquire), each at most once; the source is queried at
\* most once; after a stage fails no later stage starts; the artifacts written
\* are a prefix of the six in order; the report is printed only after all six.
C2_LinearRun ==
    /\ IsPrefix(trace, IF raised = "none"
                       THEN <<C2_Order[1]>> \o SubSeq(C2_Order, 3, Len(C2_Order))
                       ELSE C2_Order)
    /\ \A k \in DOMAIN C2_Order : Count(trace, C2_Order[k]) <= 1
    /\ queries <= 1
    /\ queries = Count(trace, "Acquire")
    /\ failedAt # "none" => (pc = "aborted" /\ trace[Len(trace)] = failedAt)
    /\ pc = "aborted" => failedAt # "none"
    /\ IsPrefix(artifacts, SixArtifacts)
    /\ report # NoReport => artifacts = SixArtifacts

C2_Witness ==
    /\ pc = "aborted"
    /\ failedAt = "RenderBar"
    /\ trace = <<"Acquire", "Generate", "ComputeStats", "ComputeCorrelations",
                 "RenderComparison", "RenderHeatmap", "RenderBar">>
    /\ Len(artifacts) = 2

\* a >= b on floats: false whenever either is NaN
PyGe(a, b) == ~IsNaN(a) /\ ~IsNaN(b) /\ a >= b

\* C6 as claimed: the rows of the statistics are sorted by mean descending,
\* mean(i) >= mean(i+1) for all adjacent rows, for every frame, frames with
\* missing cells included.
C6_SortedByMean ==
    \A i \in 1..(Len(stats) - 1) : PyGe(stats[i].key, stats[i + 1].key)

\* C6 as amended: the rows whose mean is defined are sorted by mean
\* descending, and the rows whose mean is undefined (a country with no value
\* at all) come after them: for adjacent rows, mean(i) >= mean(i+1) or
\* mean(i+1) is undefined.
C6_SortedByMeanUndefinedLast ==
    \A i \in 1..(Len(stats) - 1) :
        IsNaN(stats[i + 1].key) \/ PyGe(stats[i].key, stats[i + 1].key)

C6_Witness ==
    /\ Len(stats) >= 3
    /\ stats[1].key > stats[2].key
    /\ IsNaN(stats[Len(stats)].key)
    /\ stats[1].country # df.columns[1]
    /\ \E j \in DOMAIN df.values : \E i \in DOMAIN df.values[j] :
          IsNaN(df.values[j][i]) /\ ~AllMissing(df.values[j])

\* the crisis years that have a section in the printed report
ReportedCrisisYears ==
    {report[4].rows[k].year : k \in DOMAIN report[4].rows}

\* C7: once the report stage has started, the report is printed in full
\* without an error, and for each Y of 2009 and 2020 it holds the section of Y
\* if and only if Y is in the year index of the frame.
C7_CrisisSections ==
    "Report" \in Range(trace) =>
        /\ pc = "done"
        /\ Len(report) = 6
        /\ \A y \in {2009, 2020} : y \in ReportedCrisisYears <=> y \in Range(df.index)
        /\ Len(report[4].rows) = Cardinality(ReportedCrisisYears)

C7_Witness ==
    /\ pc = "done"
    /\ df.index = <<2008, 2010, 2020>>
    /\ ReportedCrisisYears = {2020}
    /\ Len(report) = 6

\* the pairs in the order they are discovered, ranked by absolute correlation;
\* a pair without a correlation ranks below every pair with one
C8_Ranked ==
    LET pairs == CorrPairs(correlations, 1, 2)
    IN  [k \in 1..Len(pairs) |->
            [pairs[k] EXCEPT !.key = IF IsNaN(pairs[k].key) THEN -1 ELSE pairs[k].key]]

\* C8: the correlation section lists the five pairs with the largest absolute
\* correlation, descending, every unordered pair counted once and equal
\* absolute values in discovery order.
C8_TopFive ==
    report # NoReport =>
        LET best == Take(Reverse(StableSort(Reverse(C8_Ranked))), 5)
        IN  /\ Len(report[5].rows) = Len(best)
            /\ \A k \in DOMAIN best :
                  /\ report[5].rows[k].c1 = best[k].c1
                  /\ report[5].rows[k].c2 = best[k].c2
                  /\ report[5].rows[k].corr = best[k].corr

\* a series that does not vary: at most one value among its present cells
Constant(col) == Cardinality({col[i] : i \in {k \in DOMAIN col : ~IsNaN(col[k])}}) <= 1

\* C9: the correlation matrix is symmetric, its diagonal is 1.0 except for a
\* country whose series is constant, whose entries are the fallback NaN; when
\* every country's series is constant every off-diagonal entry is NaN.
C9_Symmetric ==
    correlations # NoCorrelations =>
        LET n == Len(correlations.columns)
            v == correlations.values
        IN  /\ correlations.columns = df.columns
            /\ \A i, j \in 1..n : v[i][j] = v[j][i]
            /\ \A i, j \in 1..n : IsNaN(v[i][j]) \/ (-1000 <= v[i][j] /\ v[i][j] <= 1000)
            /\ \A i \in 1..n : v[i][i] = IF Constant(df.values[i]) THEN NaN ELSE 1000
            /\ \A i, j \in 1..n : Constant(df.values[i]) => IsNaN(v[i][j])

C9_Witness ==
    /\ correlations # NoCorrelations
    /\ Len(df.columns) = 10
    /\ \E i \in DOMAIN df.values : Constant(df.values[i])
    /\ \E i, j \in DOMAIN df.values :
          /\ i # j
          /\ ~IsNaN(correlations.values[i][j])
          /\ correlations.values[i][j] \notin {-1000, 0, 1000}
          /\ correlations.values[j][i] = correlations.values[i][j]

RECURSIVE StrictlyIncreasing(_)
StrictlyIncreasing(s) ==
    Len(s) < 2 \/ (s[1] < s[2] /\ StrictlyIncreasing(Tail(s)))

\* C10: on both acquisition paths the frame handed to the later stages has
\* the registry's display names as columns, in the configured order, and a
\* strictly increasing year index.
C10_RegistryColumns ==
    pc # "Acquire" =>
        /\ df.columns = RegistryNames
        /\ StrictlyIncreasing(df.index)
====
